---- MODULE Spec2Model ----
(***************************************************************************)
(* Loan prepayment analysis: the Loan (payment and amortization schedule), *)
(* the Returns generator and the LoanAnalysis session (vectorized          *)
(* simulator, statistics, optimizer and run_analysis).                     *)
(*                                                                         *)
(* Python floats are modelled as exact rationals <<n, d>> (d > 0, lowest   *)
(* terms): every property below is about the arithmetic the code writes,   *)
(* not about floating-point rounding error.                                *)
(***************************************************************************)
EXTENDS Integers, Sequences, FiniteSets, TLC

----------------------------------------------------------------------------
(* Bounds of the model.                                                    *)

\* longest loan term, in months
MaxTerm == 2
\* most simulated paths of one generate_returns call
MaxPaths == 2
\* largest seed handed to generate_returns
MaxSeed == 3
\* pct_principal inputs are k / PctSteps
PctSteps == 2
\* the optimizer searches the splits k / OptSteps, k in 0 .. OptSteps
OptSteps == 2
\* largest extra payment tried (and, negated, the negative one)
MaxExtra == 1
\* largest risk_aversion tried
MaxRisk == 3
\* longest risk_aversions collection handed to run_analysis
MaxRas == 2

\* np.linspace(0.0, 1.0, 101): the number of grid points of run_analysis
GridPoints == 101

----------------------------------------------------------------------------
(* float arithmetic, as exact rationals                                    *)

Abs(i) == IF i < 0 THEN -i ELSE i

RECURSIVE GCD(_, _)
GCD(a, b) == IF b = 0 THEN a ELSE GCD(b, a % b)

\* n/d in lowest terms, for d > 0
Norm(n, d) ==
    IF d = 1 THEN <<n, 1>>
    ELSE LET g == GCD(Abs(n), d)
         IN  IF g = 1 THEN <<n, d>> ELSE <<n \div g, d \div g>>

\* the rational n/d (d # 0)
Q(n, d) == IF d < 0 THEN Norm(-n, -d) ELSE Norm(n, d)

Zero == <<0, 1>>
One == <<1, 1>>
IsZero(a) == a[1] = 0
LCM(a, b) == (a \div GCD(a, b)) * b

RAdd(a, b) ==
    IF a[2] = b[2] THEN Norm(a[1] + b[1], a[2])
    ELSE LET l == LCM(a[2], b[2])
         IN  Norm(a[1] * (l \div a[2]) + b[1] * (l \div b[2]), l)
RNeg(a) == <<-a[1], a[2]>>
RSub(a, b) ==
    IF a[2] = b[2] THEN Norm(a[1] - b[1], a[2])
    ELSE LET l == LCM(a[2], b[2])
         IN  Norm(a[1] * (l \div a[2]) - b[1] * (l \div b[2]), l)
RMul(a, b) ==
    IF a[2] = 1 /\ b[2] = 1 THEN <<a[1] * b[1], 1>>
    ELSE LET g1 == GCD(Abs(a[1]), b[2])
             g2 == GCD(Abs(b[1]), a[2])
         IN  <<(a[1] \div g1) * (b[1] \div g2), (a[2] \div g2) * (b[2] \div g1)>>
\* b is not zero
RDiv(a, b) == RMul(a, IF b[1] < 0 THEN <<-b[2], -b[1]>> ELSE <<b[2], b[1]>>)
RLe(a, b) ==
    IF a[2] = b[2] THEN a[1] <= b[1]
    ELSE LET l == LCM(a[2], b[2])
         IN  a[1] * (l \div a[2]) <= b[1] * (l \div b[2])
RLt(a, b) == RLe(a, b) /\ a # b
RMin(a, b) == IF RLe(a, b) THEN a ELSE b

RECURSIVE RPow(_, _)
RPow(a, k) ==
    IF k = 0 THEN One
    ELSE IF k < 0 THEN RDiv(One, RPow(a, -k))
    ELSE RMul(a, RPow(a, k - 1))

\* Python's round(x, 2): to the nearest cent, a tie to the even cent
Round2(x) ==
    LET t == RMul(x, Q(100, 1))
        fl == t[1] \div t[2]
        twice == 2 * (t[1] - fl * t[2])
    IN  IF twice < t[2] THEN Q(fl, 100)
        ELSE IF twice > t[2] THEN Q(fl + 1, 100)
        ELSE IF fl % 2 = 0 THEN Q(fl, 100) ELSE Q(fl + 1, 100)

\* x ** (1 / 12) for the x of the model, each a twelfth power g^12
Root12(x) == CHOOSE g \in {Q(k, 1) : k \in 1 .. 2} : RPow(g, 12) = x

RECURSIVE SumTo(_, _)
\* v[1] + ... + v[k]
SumTo(v, k) == IF k = 0 THEN Zero ELSE RAdd(SumTo(v, k - 1), v[k])

RECURSIVE SumSqTo(_, _, _)
\* (v[1] - mu)^2 + ... + (v[k] - mu)^2
SumSqTo(v, mu, k) ==
    IF k = 0 THEN Zero
    ELSE RAdd(SumSqTo(v, mu, k - 1), RMul(RSub(v[k], mu), RSub(v[k], mu)))

----------------------------------------------------------------------------
(* Loan (loan.py)                                                          *)

\* amortization.amount.calculate_amortization_amount, the package function
\* Loan.__post_init__ calls: the annuity payment on the monthly rate, rounded
\* to cents; the quotient's divisor is 0 when (1 + rate/12) ** period = 1
calculate_amortization_amount(principal, interest_rate, period) ==
    LET adjusted_interest == RDiv(interest_rate, Q(12, 1))
        x == RPow(RAdd(One, adjusted_interest), period)
        d == RSub(x, One)
    IN  IF IsZero(d)
        THEN [error |-> "ZeroDivisionError", value |-> Zero]
        ELSE [error |-> "none",
              value |-> Round2(RDiv(RMul(principal, RMul(adjusted_interest, x)), d))]

\* Loan(loan_amt, rate, term): the dataclass and its __post_init__
LoanNew(loan_amt, rate, term) ==
    LET amount == calculate_amortization_amount(loan_amt, rate, term)
    IN  [error |-> amount.error, loan_amt |-> loan_amt, rate |-> rate,
         term |-> term, payment |-> amount.value]

\* the checks at the head of Loan.amortization_schedule
ScheduleArgError(extra, pct_principal) ==
    IF RLt(extra, Zero) THEN "ValueError: extra"
    ELSE IF ~(RLe(Zero, pct_principal) /\ RLe(pct_principal, One))
    THEN "ValueError: pct_principal"
    ELSE "none"

\* a schedule that compounds the invested balance before the month's
\* contribution is added, which C9_SameArithmetic tells apart from the code
ScheduleRowCompoundFirst(l, extra, inv_return, pct_principal, i, balance0, invested0) ==
    LET interest == RDiv(RMul(balance0, l.rate), Q(12, 1))
        principal0 == RAdd(RSub(l.payment, interest), RMul(extra, pct_principal))
        principal == RMin(principal0, balance0)
        balance == RSub(balance0, principal)
        invest == RSub(RSub(RAdd(l.payment, extra), principal), interest)
        invested_balance ==
            RAdd(RMul(invested0, Root12(RAdd(One, inv_return))), invest)
    IN  [Month |-> i, Payment |-> RAdd(principal, interest),
         Principal |-> principal, Interest |-> interest, Balance |-> balance,
         Invested |-> invest, InvestedBalance |-> invested_balance]

\* one pass of the loop of Loan.amortization_schedule: the row of month i
\* from the balance and invested balance the month starts with
ScheduleRow(l, extra, inv_return, pct_principal, i, balance0, invested0) ==
    LET interest == RDiv(RMul(balance0, l.rate), Q(12, 1))
        principal0 == RAdd(RSub(l.payment, interest), RMul(extra, pct_principal))
        principal == RMin(principal0, balance0)
        balance == RSub(balance0, principal)
        invest == RSub(RSub(RAdd(l.payment, extra), principal), interest)
        invested_balance ==
            RMul(RAdd(invested0, invest), Root12(RAdd(One, inv_return)))
    IN  [Month |-> i, Payment |-> RAdd(principal, interest),
         Principal |-> principal, Interest |-> interest, Balance |-> balance,
         Invested |-> invest, InvestedBalance |-> invested_balance]

\* month i's row appended to the rows of months 1 .. i-1
ScheduleExtend(l, extra, inv_return, pct_principal, i, before) ==
    Append(before,
           ScheduleRow(l, extra, inv_return, pct_principal, i,
                       IF i = 1 THEN l.loan_amt ELSE before[i - 1].Balance,
                       IF i = 1 THEN Zero ELSE before[i - 1].InvestedBalance))

RECURSIVE ScheduleRows(_, _, _, _, _)
\* the rows of months 1 .. i
ScheduleRows(l, extra, inv_return, pct_principal, i) ==
    IF i <= 0 THEN <<>>
    ELSE ScheduleExtend(l, extra, inv_return, pct_principal, i,
                        ScheduleRows(l, extra, inv_return, pct_principal, i - 1))

RECURSIVE InterestTo(_, _)
\* interest_paid after month k
InterestTo(rows, k) ==
    IF k = 0 THEN Zero ELSE RAdd(InterestTo(rows, k - 1), rows[k].Interest)

\* Loan.amortization_schedule: (schedule, interest_paid), or the error raised
amortization_schedule(l, extra, inv_return, pct_principal) ==
    LET err == ScheduleArgError(extra, pct_principal)
        rows == ScheduleRows(l, extra, inv_return, pct_principal, l.term)
    IN  IF err # "none"
        THEN [error |-> err, schedule |-> <<>>, interest_paid |-> Zero]
        ELSE [error |-> "none", schedule |-> rows,
              interest_paid |-> InterestTo(rows, Len(rows))]

----------------------------------------------------------------------------
(* LoanAnalysis: the vectorized simulator (analysis.py)                    *)

\* a simulator that invests only what the unclamped principal leaves over,
\* so that a clamped excess goes nowhere; C1_ExcessInvested tells it apart
\* from the code
SimStepNoRedirect(l, extra, pct_principal, r, balance0, invested0) ==
    LET monthly_rate == RDiv(l.rate, Q(12, 1))
        interest == RMul(balance0, monthly_rate)
        principal0 == RAdd(RSub(l.payment, interest), RMul(extra, pct_principal))
        principal == RMin(principal0, balance0)
        invest == RSub(RSub(RAdd(l.payment, extra), principal0), interest)
    IN  [balance0 |-> balance0, interest |-> interest, unclamped |-> principal0,
         principal |-> principal, invest |-> invest,
         invested |-> RMul(RAdd(invested0, invest), RAdd(One, r)),
         balance |-> RSub(balance0, principal)]

\* one pass of the loop of invested_balances_for_pct_principal for one path
\* (the numpy operations act on every path alike): r is monthly[:, m] there
SimStep(l, extra, pct_principal, r, balance0, invested0) ==
    LET monthly_rate == RDiv(l.rate, Q(12, 1))
        interest == RMul(balance0, monthly_rate)
        principal0 == RAdd(RSub(l.payment, interest), RMul(extra, pct_principal))
        principal == RMin(principal0, balance0)
        invest == RSub(RSub(RAdd(l.payment, extra), principal), interest)
    IN  [balance0 |-> balance0, interest |-> interest, unclamped |-> principal0,
         principal |-> principal, invest |-> invest,
         invested |-> RMul(RAdd(invested0, invest), RAdd(One, r)),
         balance |-> RSub(balance0, principal)]

\* month m's pass appended to the passes of months 1 .. m-1
SimExtend(l, extra, pct_principal, row, m, before) ==
    Append(before,
           SimStep(l, extra, pct_principal, row[m],
                   IF m = 1 THEN l.loan_amt ELSE before[m - 1].balance,
                   IF m = 1 THEN Zero ELSE before[m - 1].invested))

RECURSIVE SimPath(_, _, _, _, _)
\* the loop's passes for months 1 .. m along the path with returns `row`
SimPath(l, extra, pct_principal, row, m) ==
    IF m <= 0 THEN <<>>
    ELSE SimExtend(l, extra, pct_principal, row, m,
                   SimPath(l, extra, pct_principal, row, m - 1))

\* every path's passes: the term is the matrix's width (monthly.shape)
SimTrace(l, monthly, pct_principal, extra) ==
    [p \in 1 .. Len(monthly) |->
        SimPath(l, extra, pct_principal, monthly[p], Len(monthly[p]))]

\* the last pass's invested balance (0 when the loop never ran)
Terminal(passes) ==
    IF passes = <<>> THEN Zero ELSE passes[Len(passes)].invested

RECURSIVE InvestedUpTo(_, _, _, _, _)
\* the terminal invested balances of paths 1 .. p
InvestedUpTo(l, monthly, pct_principal, extra, p) ==
    IF p = 0 THEN <<>>
    ELSE Append(InvestedUpTo(l, monthly, pct_principal, extra, p - 1),
                Terminal(SimPath(l, extra, pct_principal, monthly[p],
                                 Len(monthly[p]))))

\* invested_balances_for_pct_principal on a stored matrix: the vector of
\* terminal invested balances
InvestedBalances(l, monthly, pct_principal, extra) ==
    InvestedUpTo(l, monthly, pct_principal, extra, Len(monthly))

\* numpy's mean and (population) var of a vector
Mean(v) == RDiv(SumTo(v, Len(v)), Q(Len(v), 1))
Var(v) == RDiv(SumSqTo(v, Mean(v), Len(v)), Q(Len(v), 1))

\* (balances.mean(), balances.var())
MeanVar(balances) == <<Mean(balances), Var(balances)>>

\* an objective that rewards variance instead of penalizing it, which
\* C6_VarianceMonotone tells apart from the code
UtilityRiskSeeking(mean, variance, risk_aversion) ==
    RNeg(RAdd(mean, RDiv(RMul(risk_aversion, variance), Q(2, 1))))

\* the objective's value when the risk aversion is a float
Utility(mean, variance, risk_aversion) ==
    RNeg(RSub(mean, RDiv(RMul(risk_aversion, variance), Q(2, 1))))

----------------------------------------------------------------------------
(* Returns.generate_returns (returns.py)                                   *)

None == <<>>
Some(v) == <<v>>

\* bit k of the seed
SeedBit(seed, k) == (seed \div (2 ^ k)) % 2

\* scipy's t.rvs(size = (n, term), random_state = seed) with a positive
\* scale: a matrix the seed fixes.  The model's samples are the 0/1 matrices
\* (a monthly return of 0 or of +100%), numbered by the seed's bits.
t_rvs(n, term, seed) ==
    [p \in 1 .. n |->
        [m \in 1 .. term |->
            Q(SeedBit(seed, (n - p) * term + (term - m)), 1)]]

\* Returns.generate_returns(n, term, seed): the matrix, or the error raised.
\* (df - 2) / df divides by zero for df = 0; for df = 1 the square root of a
\* negative number makes the scale nan and a negative df fails the
\* distribution's check, both a ValueError of t.rvs, like a negative scale;
\* a scale of 0 returns the location everywhere.
Returns_generate_returns(rm, n, term, seed) ==
    LET monthly_mean_return == RSub(Root12(RAdd(One, rm.expected_return)), One)
        df == rm.degrees_of_freedom
    IN  IF df = 0 THEN [error |-> "ZeroDivisionError", value |-> None]
        ELSE IF df < 2 \/ RLt(rm.volatility, Zero)
        THEN [error |-> "ValueError: domain", value |-> None]
        ELSE IF df = 2 \/ IsZero(rm.volatility)
        THEN [error |-> "none",
              value |-> [p \in 1 .. n |-> [m \in 1 .. term |-> monthly_mean_return]]]
        ELSE [error |-> "none", value |-> t_rvs(n, term, seed)]

----------------------------------------------------------------------------
(* LoanAnalysis: the operations on a session (analysis.py)                 *)

NotGenerated == "ValueError: monthly_returns not generated"

\* a simulator without the check for a missing matrix: None has no .shape,
\* and the AttributeError is what the caller sees; C2_FailsIffNoMatrix tells
\* it apart from the code
invested_balances_unchecked(l, stored, pct_principal, extra) ==
    IF stored = None
    THEN [error |-> "AttributeError", value |-> <<>>]
    ELSE [error |-> "none",
          value |-> InvestedBalances(l, stored[1], pct_principal, extra)]

\* invested_balances_for_pct_principal(pct_principal, extra) with the stored
\* matrix `stored` (None or Some(matrix)): the vector of terminal invested
\* balances, or the error raised
invested_balances_for_pct_principal(l, stored, pct_principal, extra) ==
    IF stored = None
    THEN [error |-> NotGenerated, value |-> <<>>]
    ELSE [error |-> "none",
          value |-> InvestedBalances(l, stored[1], pct_principal, extra)]

\* a loop that turns the stored returns into growth factors in place
\* (monthly += 1), which C7_ReadOnly tells apart from the code
MonthlyGrownInPlace(stored) ==
    IF stored = None THEN None
    ELSE Some([p \in DOMAIN stored[1] |->
                  [m \in DOMAIN stored[1][p] |-> RAdd(stored[1][p][m], One)]])

\* what the stored matrix is after the simulator's loop: the loop reads the
\* columns monthly[:, m] and writes only its own arrays
MonthlyAfterRead(stored) == stored

\* stats_invested_balance_for_pct: (mean, variance)
stats_invested_balance_for_pct(l, stored, pct_principal, extra) ==
    LET balances == invested_balances_for_pct_principal(l, stored,
                                                        pct_principal, extra)
    IN  IF balances.error # "none"
        THEN [error |-> balances.error, value |-> <<>>]
        ELSE [error |-> "none", value |-> MeanVar(balances.value)]

\* mean_invested_balance_for_pct
mean_invested_balance_for_pct(l, stored, pct_principal, extra) ==
    LET balances == invested_balances_for_pct_principal(l, stored,
                                                        pct_principal, extra)
    IN  IF balances.error # "none"
        THEN [error |-> balances.error, value |-> <<>>]
        ELSE [error |-> "none", value |-> Mean(balances.value)]

\* a risk aversion as Python sees it: a float, or a collection handed on whole
Float(a) == [kind |-> "float", v |-> a, items |-> <<>>]
Collection(kind, items) == [kind |-> kind, v |-> Zero, items |-> items]

\* objective_func(p) of optimize_pct_principal: the statistics first, then
\* -(mean - risk_aversion * variance / 2), a TypeError when risk_aversion is
\* a tuple
objective_func(l, stored, extra, risk_aversion, p) ==
    LET st == stats_invested_balance_for_pct(l, stored, p, extra)
    IN  IF st.error # "none" THEN [error |-> st.error, value |-> Zero]
        ELSE IF risk_aversion.kind # "float"
        THEN [error |-> "TypeError", value |-> Zero]
        ELSE [error |-> "none",
              value |-> Utility(st.value[1], st.value[2], risk_aversion.v)]

\* the splits the bounded search looks at
SearchPoint(k) == Q(k, OptSteps)

RECURSIVE ObjectiveTable(_, _, _, _, _)
\* the objective at the search points 0 .. k
ObjectiveTable(l, stored, extra, risk_aversion, k) ==
    IF k < 0 THEN <<>>
    ELSE Append(ObjectiveTable(l, stored, extra, risk_aversion, k - 1),
                objective_func(l, stored, extra, risk_aversion, SearchPoint(k)))

\* the search points where a table of objective values is least
ArgMin(table) ==
    {SearchPoint(k - 1) : k \in
        {i \in 1 .. Len(table) :
            \A j \in 1 .. Len(table) : RLe(table[i].value, table[j].value)}}

\* scipy's minimize_scalar(objective_func, bounds = (0, 1), method =
\* "bounded"): an error the objective raises propagates; otherwise .x is a
\* minimizer of the objective over the search points
Minimize(table) ==
    IF table[1].error # "none" THEN [error |-> table[1].error, xs |-> {}]
    ELSE [error |-> "none", xs |-> ArgMin(table)]

\* optimize_pct_principal(extra, risk_aversion): the possible results
optimize_pct_principal(l, stored, extra, risk_aversion) ==
    Minimize(ObjectiveTable(l, stored, extra, risk_aversion, OptSteps))

\* np.linspace(0.0, 1.0, 101)
GridXs == [k \in 1 .. GridPoints |-> Q(k - 1, GridPoints - 1)]

RECURSIVE GridYsOver(_, _, _, _, _)
\* the mean at the grid points lo .. hi
GridYsOver(l, stored, extra, lo, hi) ==
    IF lo = hi
    THEN <<mean_invested_balance_for_pct(l, stored, GridXs[lo], extra).value>>
    ELSE GridYsOver(l, stored, extra, lo, (lo + hi) \div 2)
         \o GridYsOver(l, stored, extra, ((lo + hi) \div 2) + 1, hi)

\* ys of run_analysis: the mean at every grid point
GridYs(l, stored, extra) == GridYsOver(l, stored, extra, 1, GridPoints)

\* the list run_analysis loops over: the input when it is a list, and
\* otherwise the one-element list holding the input whole
LoopItems(input) ==
    IF input.kind = "list"
    THEN [i \in 1 .. Len(input.items) |-> Float(input.items[i])]
    ELSE <<input>>

RECURSIVE OptimizeEach(_, _, _, _, _)
\* optimize_pct_principal for the loop's items 1 .. i
OptimizeEach(l, stored, extra, items, i) ==
    IF i <= 0 THEN <<>>
    ELSE Append(OptimizeEach(l, stored, extra, items, i - 1),
                optimize_pct_principal(l, stored, extra, items[i]))

\* np.sqrt(var), kept as the variance it is the root of
Sqrt(v) == <<"sqrt", v>>

\* the AnalysisResult for one choice of each optimization's result
AnalysisResult(l, stored, extra, items, ys, pick) ==
    [xs |-> GridXs, ys |-> ys,
     opt_pct_principals |-> pick,
     opt_means |-> [i \in 1 .. Len(items) |->
         stats_invested_balance_for_pct(l, stored, pick[i], extra).value[1]],
     opt_stds |-> [i \in 1 .. Len(items) |->
         Sqrt(stats_invested_balance_for_pct(l, stored, pick[i], extra).value[2])],
     risk_aversions |-> [i \in 1 .. Len(items) |->
         IF items[i].kind = "float" THEN items[i].v ELSE items[i].items]]

\* the loop of run_analysis over the optimizations' results `opts`: the
\* first error raised ends the call
RunLoop(l, stored, extra, items, ys, opts) ==
    IF \E i \in 1 .. Len(opts) : opts[i].error # "none"
    THEN {[error |-> opts[CHOOSE i \in 1 .. Len(opts) :
                              /\ opts[i].error # "none"
                              /\ \A j \in 1 .. i - 1 : opts[j].error = "none"].error,
           value |-> None]}
    ELSE {[error |-> "none",
           value |-> Some(AnalysisResult(l, stored, extra, items, ys, pick))] :
          pick \in {f \in [1 .. Len(opts) -> {SearchPoint(k) : k \in 0 .. OptSteps}] :
                       \A i \in 1 .. Len(opts) : f[i] \in opts[i].xs}}

\* run_analysis(extra, risk_aversions) from the grid's means on: the first
\* of them raises when no matrix is stored
RunFromGrid(l, stored, extra, input, ys) ==
    IF stored = None THEN {[error |-> NotGenerated, value |-> None]}
    ELSE RunLoop(l, stored, extra, LoopItems(input), ys,
                 OptimizeEach(l, stored, extra, LoopItems(input),
                              Len(LoopItems(input))))

\* run_analysis(extra, risk_aversions): the possible outcomes
run_analysis(l, stored, extra, input) ==
    RunFromGrid(l, stored, extra, input, GridYs(l, stored, extra))

----------------------------------------------------------------------------
(* The state of a session and its inputs                                   *)

VARIABLES
    loan,             \* the Loan, or the error its construction raised
    returns,          \* the Returns model
    monthly_returns,  \* LoanAnalysis.monthly_returns: None or Some(matrix)
    pc,               \* "idle", or "returned": a call's outcome is at hand
    outcome,          \* the last call: operation, arguments, error, value
    generated,        \* history: a generate_returns call has completed
    seen              \* history: an earlier result the caller kept, or None

vars == <<loan, returns, monthly_returns, pc, outcome, generated, seen>>

PctVals == {Q(k, PctSteps) : k \in -1 .. PctSteps + 1}
ExtraVals == {Q(e, 1) : e \in {-MaxExtra} \cup 0 .. MaxExtra}
RiskVals == {Q(a, 1) : a \in 0 .. MaxRisk}
InvReturnVals == {Q(0, 1), Q(4095, 1)}
DfVals == {0, 2, 3}

RECURSIVE SeqsUpTo(_, _)
\* the sequences over S of length at most n
SeqsUpTo(S, n) ==
    IF n = 0 THEN {<<>>}
    ELSE SeqsUpTo(S, n - 1) \cup
         {Append(q, x) : q \in {r \in SeqsUpTo(S, n - 1) : Len(r) = n - 1}, x \in S}

\* the risk_aversions inputs of run_analysis: lists and tuples of the two
\* extreme coefficients, and a bare float
RunInputs ==
    {Collection(kind, items) : kind \in {"list", "tuple"},
        items \in SeqsUpTo({Q(0, 1), Q(MaxRisk, 1)}, MaxRas)}
    \cup {Float(a) : a \in {Q(0, 1), Q(MaxRisk, 1)}}

\* the matrices a session can hold for a loan of `term` months
Matrices(term) ==
    {t_rvs(n, term, seed) : n \in 1 .. MaxPaths, seed \in 0 .. MaxSeed}

\* a call's outcome: the error raised and no value, or no error and
\* Some(the value returned)
NoCall == [op |-> "none", args |-> <<>>, error |-> "none", value |-> None]
Call(op, args, error, value) ==
    [op |-> op, args |-> args, error |-> error,
     value |-> IF error = "none" THEN Some(value) ELSE None]

\* LoanAnalysis(loan, returns, monthly_returns = None) around a loan whose
\* annuity payment is a whole number: amount 2^term - 1 at a monthly rate of 1
SessionInit(dfs, supplied) ==
    /\ \E term \in 1 .. MaxTerm :
         /\ loan = LoanNew(Q(2 ^ term - 1, 1), Q(12, 1), term)
         /\ monthly_returns \in
                {None} \cup (IF supplied THEN {Some(m) : m \in Matrices(term)}
                             ELSE {})
    /\ \E df \in dfs :
         returns = [expected_return |-> Zero, volatility |-> Q(15, 100),
                    degrees_of_freedom |-> df]
    /\ pc = "idle"
    /\ outcome = NoCall
    /\ generated = FALSE
    /\ seen = None

\* any session: any Returns model, a matrix passed to the constructor or not
Init == SessionInit(DfVals, TRUE)

\* a session made as main.py makes it: a sound Returns model and no matrix
InitGenerated == SessionInit({3}, FALSE)

\* Loan(loan_amt, rate, term) on its own, valid or not
LoanAmts == {Q(a, 1) : a \in {-100, 0, 100, 300}}
LoanRates == {Q(-12, 100), Q(0, 1), Q(12, 100), Q(12, 1)}
InitLoan ==
    /\ \E loan_amt \in LoanAmts, rate \in LoanRates, term \in -1 .. MaxTerm :
         loan = LoanNew(loan_amt, rate, term)
    /\ returns = [expected_return |-> Zero, volatility |-> Q(15, 100),
                  degrees_of_freedom |-> 3]
    /\ monthly_returns = None
    /\ pc = "idle"
    /\ outcome = NoCall
    /\ generated = FALSE
    /\ seen = None

----------------------------------------------------------------------------
(* The operations                                                          *)

\* a call can be made: the objects exist and no outcome is pending
Ready == pc = "idle" /\ loan.error = "none"

\* loan.amortization_schedule(extra, inv_return, pct_principal)
AmortizationScheduleCall ==
    /\ Ready
    /\ \E extra \in ExtraVals, inv_return \in InvReturnVals, pct \in PctVals :
         LET r == amortization_schedule(loan, extra, inv_return, pct)
         IN  outcome' = Call("amortization_schedule", <<extra, inv_return, pct>>,
                             r.error,
                             [schedule |-> r.schedule,
                              interest_paid |-> r.interest_paid])
    /\ pc' = "returned"
    /\ UNCHANGED <<loan, returns, monthly_returns, generated, seen>>

\* analysis.generate_returns(n, seed): stores the matrix unless the
\* generator raises
GenerateReturns ==
    /\ Ready
    /\ \E n \in 1 .. MaxPaths, seed \in 0 .. MaxSeed :
         LET g == Returns_generate_returns(returns, n, loan.term, seed)
         IN  /\ outcome' = Call("generate_returns", <<n, seed>>, g.error, None)
             /\ monthly_returns' =
                    IF g.error = "none" THEN Some(g.value) ELSE monthly_returns
             /\ generated' = (generated \/ g.error = "none")
             /\ seen' = IF g.error = "none" THEN None ELSE seen
    /\ pc' = "returned"
    /\ UNCHANGED <<loan, returns>>

\* analysis.invested_balances_for_pct_principal(pct_principal, extra)
InvestedBalancesCall ==
    /\ Ready
    /\ \E pct \in PctVals, extra \in ExtraVals :
         LET r == invested_balances_for_pct_principal(loan, monthly_returns,
                                                      pct, extra)
         IN  outcome' = Call("invested_balances", <<pct, extra>>, r.error,
                             [balances |-> r.value,
                              passes |-> IF r.error # "none" THEN <<>>
                                         ELSE SimTrace(loan, monthly_returns[1],
                                                       pct, extra)])
    /\ monthly_returns' = MonthlyAfterRead(monthly_returns)
    /\ pc' = "returned"
    /\ UNCHANGED <<loan, returns, generated, seen>>

\* analysis.stats_invested_balance_for_pct(pct_principal, extra)
StatsCall ==
    /\ Ready
    /\ \E pct \in PctVals, extra \in ExtraVals :
         LET r == stats_invested_balance_for_pct(loan, monthly_returns, pct, extra)
         IN  outcome' = Call("stats", <<pct, extra>>, r.error, r.value)
    /\ monthly_returns' = MonthlyAfterRead(monthly_returns)
    /\ pc' = "returned"
    /\ UNCHANGED <<loan, returns, generated, seen>>

\* analysis.mean_invested_balance_for_pct(pct_principal, extra)
MeanCall ==
    /\ Ready
    /\ \E pct \in PctVals, extra \in ExtraVals :
         LET r == mean_invested_balance_for_pct(loan, monthly_returns, pct, extra)
         IN  outcome' = Call("mean", <<pct, extra>>, r.error, r.value)
    /\ monthly_returns' = MonthlyAfterRead(monthly_returns)
    /\ pc' = "returned"
    /\ UNCHANGED <<loan, returns, generated, seen>>

\* analysis.optimize_pct_principal(extra, risk_aversion)
OptimizeCall ==
    /\ Ready
    /\ \E extra \in ExtraVals, a \in RiskVals :
         LET r == optimize_pct_principal(loan, monthly_returns, extra, Float(a))
         IN  IF r.error # "none"
             THEN outcome' = Call("optimize", <<extra, a>>, r.error, None)
             ELSE \E x \in r.xs :
                    outcome' = Call("optimize", <<extra, a>>, "none", [x |-> x])
    /\ monthly_returns' = MonthlyAfterRead(monthly_returns)
    /\ pc' = "returned"
    /\ UNCHANGED <<loan, returns, generated, seen>>

\* run_analysis(extra, input) for every input: the grid's means do not
\* depend on the input and are worked out once
RunAnalysisOutcome(extra, ys) ==
    \E input \in RunInputs :
       \E r \in RunFromGrid(loan, monthly_returns, extra, input, ys) :
          outcome' = [op |-> "run_analysis", args |-> <<extra, input>>,
                      error |-> r.error, value |-> r.value]

\* analysis.run_analysis(extra, risk_aversions), extra among `extras`
RunAnalysis(extras) ==
    /\ Ready
    /\ \E extra \in extras :
         RunAnalysisOutcome(extra, GridYs(loan, monthly_returns, extra))
    /\ monthly_returns' = MonthlyAfterRead(monthly_returns)
    /\ pc' = "returned"
    /\ UNCHANGED <<loan, returns, generated, seen>>

\* the caller takes the outcome and goes on
Return ==
    /\ pc = "returned"
    /\ pc' = "idle"
    /\ outcome' = NoCall
    /\ seen' = IF seen = None THEN None
               ELSE Some([seen[1] EXCEPT !.between = TRUE])
    /\ UNCHANGED <<loan, returns, monthly_returns, generated>>

\* the caller keeps the result of a call of `op` to compare a later one with
Keep(op) ==
    /\ pc = "returned"
    /\ outcome.op = op
    /\ outcome.error = "none"
    /\ seen' = Some([op |-> op, args |-> outcome.args, value |-> outcome.value,
                     between |-> FALSE])
    /\ pc' = "idle"
    /\ outcome' = NoCall
    /\ UNCHANGED <<loan, returns, monthly_returns, generated>>

RunAnalysisCall == RunAnalysis(ExtraVals)
RunAnalysisLargest == RunAnalysis({Q(MaxExtra, 1)})

KeepStats == Keep("stats")
KeepOptimum == Keep("optimize")

\* a session: every operation of LoanAnalysis
Next ==
    \/ GenerateReturns
    \/ InvestedBalancesCall
    \/ StatsCall
    \/ MeanCall
    \/ OptimizeCall
    \/ RunAnalysisCall
    \/ Return

Spec == Init /\ [][Next]_vars

\* a session on generated matrices whose caller keeps statistics to compare
NextStats ==
    \/ GenerateReturns
    \/ InvestedBalancesCall
    \/ StatsCall
    \/ MeanCall
    \/ OptimizeCall
    \/ RunAnalysisLargest
    \/ Return
    \/ KeepStats

SpecStats == InitGenerated /\ [][NextStats]_vars

\* a session of optimizations whose caller keeps optima to compare
NextOpt ==
    \/ GenerateReturns
    \/ OptimizeCall
    \/ Return
    \/ KeepOptimum

SpecOpt == InitGenerated /\ [][NextOpt]_vars

\* a Loan and its schedules
NextLoan ==
    \/ AmortizationScheduleCall
    \/ Return

SpecLoan == InitLoan /\ [][NextLoan]_vars


----------------------------------------------------------------------------
(* The properties                                                          *)

\* the arguments Loan.amortization_schedule accepts
ValidArgs(extra, pct_principal) == ScheduleArgError(extra, pct_principal) = "none"

\* the operations that read the stored matrix
FiveOps == {"invested_balances", "stats", "mean", "optimize", "run_analysis"}

\* a call of the vectorized simulator has returned its balances
Simulated == outcome.op = "invested_balances" /\ outcome.error = "none"

\* the passes (path, month) of the simulator call that has returned
SimulatedPasses ==
    {outcome.value[1].passes[p][m] :
        p \in DOMAIN outcome.value[1].passes, m \in 1 .. loan.term}

\* the clamp principal = min(principal, balance) lowered the principal
ClampLowered(pass) == RLt(pass.principal, pass.unclamped)

\* the investment contribution extra * (1 - pct_principal) of a month the
\* clamp leaves alone
PlainContribution == RMul(outcome.args[2], RSub(One, outcome.args[1]))

\* C1 as the spec states it: in the vectorized simulator, called with
\* extra >= 0 and pct_principal in [0, 1], a month whose principal the clamp
\* lowers invests no more than extra * (1 - pct_principal): the clamped
\* excess is not redirected to the investment.
C1_ExcessNotInvested ==
    (Simulated /\ ValidArgs(outcome.args[2], outcome.args[1])) =>
        \A pass \in SimulatedPasses :
            ClampLowered(pass) => RLe(pass.invest, PlainContribution)

\* C1 as the code has it: in every pass of the vectorized simulator
\* invest = payment + extra - principal - interest with the clamped
\* principal, so a month whose principal the clamp lowers invests
\* extra * (1 - pct_principal) plus the whole excess of the unclamped
\* principal over the balance, which is more.
C1_ExcessInvested ==
    Simulated =>
        \A pass \in SimulatedPasses :
            /\ pass.invest = RAdd(PlainContribution,
                                  RSub(pass.unclamped, pass.principal))
            /\ ClampLowered(pass) =>
                   /\ pass.principal = pass.balance0
                   /\ RLt(PlainContribution, pass.invest)

\* a simulator call with valid arguments has returned and the clamp lowered
\* the principal of one of its months
C1_ClampedMonth ==
    /\ Simulated
    /\ ValidArgs(outcome.args[2], outcome.args[1])
    /\ \E pass \in SimulatedPasses : ClampLowered(pass)

\* C2 as the spec states it: a call of one of the five operations fails with
\* the 'returns not generated' error exactly when no generate_returns call has
\* completed on the session.
C2_FailsIffNotGenerated ==
    outcome.op \in FiveOps => (outcome.error = NotGenerated <=> ~generated)

\* C2 as the code has it: a call of one of the five operations fails with the
\* 'returns not generated' error, and returns nothing, exactly when the
\* session holds no matrix: none was passed to the constructor and no
\* generate_returns call has completed.  Once a generate_returns call has
\* completed the session holds a matrix for good.
C2_FailsIffNoMatrix ==
    /\ generated => monthly_returns # None
    /\ outcome.op \in FiveOps =>
           /\ outcome.error = NotGenerated <=> monthly_returns = None
           /\ outcome.error = NotGenerated => outcome.value = None

\* one of the five operations has failed for want of a matrix
C2_FailedNotGenerated ==
    /\ outcome.op \in FiveOps
    /\ outcome.error = NotGenerated
    /\ monthly_returns = None

\* the operations that take the arguments extra and pct_principal
SplitOps == {"invested_balances", "stats", "mean"}

\* C3: every configuration error is rejected with an error and never
\* silently accepted: a Loan that exists has loan_amt > 0, term > 0 and
\* rate >= 0; a generate_returns call on a Returns model with
\* degrees_of_freedom <= 2 fails; a call with a negative extra, or with a
\* pct_principal outside [0, 1], fails and returns nothing.
C3_ConfigErrorsRejected ==
    /\ loan.error = "none" =>
           /\ RLt(Zero, loan.loan_amt)
           /\ loan.term > 0
           /\ RLe(Zero, loan.rate)
    /\ (outcome.op = "generate_returns" /\ returns.degrees_of_freedom <= 2) =>
           outcome.error # "none"
    /\ (outcome.op \in SplitOps
            /\ ~ValidArgs(outcome.args[2], outcome.args[1])) =>
           (outcome.error # "none" /\ outcome.value = None)
    /\ (outcome.op \in {"optimize", "run_analysis"}
            /\ RLt(outcome.args[1], Zero)) =>
           (outcome.error # "none" /\ outcome.value = None)

\* the coefficients of a risk_aversions input, in its order
Coefficients(input) == IF input.kind = "float" THEN <<input.v>> ELSE input.items

\* C8: a run_analysis call with extra >= 0 on a session that holds a matrix
\* returns a result index-aligned with its input: for an ordered collection of k coefficients
\* (a list or any other) the four per-coefficient sequences have k entries
\* and entry i holds coefficient i, a split that minimizes its objective, and
\* the mean and standard deviation at that split; a scalar is a collection
\* of one; xs and ys have exactly 101 entries and xs is the uniform grid on
\* [0, 1].
C8_IndexAligned ==
    (outcome.op = "run_analysis" /\ monthly_returns # None
         /\ RLe(Zero, outcome.args[1])) =>
        /\ outcome.error = "none"
        /\ LET result == outcome.value[1]
               extra == outcome.args[1]
               coefficients == Coefficients(outcome.args[2])
               k == Len(coefficients)
           IN  /\ Len(result.risk_aversions) = k
               /\ Len(result.opt_pct_principals) = k
               /\ Len(result.opt_means) = k
               /\ Len(result.opt_stds) = k
               /\ \A i \in 1 .. k :
                    LET x == result.opt_pct_principals[i]
                        st == stats_invested_balance_for_pct(
                                  loan, monthly_returns, x, extra).value
                    IN  /\ result.risk_aversions[i] = coefficients[i]
                        /\ x \in optimize_pct_principal(
                                    loan, monthly_returns, extra,
                                    Float(coefficients[i])).xs
                        /\ result.opt_means[i] = st[1]
                        /\ result.opt_stds[i] = Sqrt(st[2])
               /\ Len(result.xs) = GridPoints
               /\ Len(result.ys) = GridPoints
               /\ \A j \in 1 .. GridPoints :
                    result.xs[j] = Q(j - 1, GridPoints - 1)

\* the monthly growth factors g a constant matrix g - 1 is built from
GrowthVals == {Q(1, 1), Q(2, 1)}

\* every entry of the stored matrix is g - 1
ConstantMatrix(g) ==
    /\ monthly_returns # None
    /\ \A p \in DOMAIN monthly_returns[1] :
         \A m \in DOMAIN monthly_returns[1][p] :
            monthly_returns[1][p][m] = RSub(g, One)

C10_BalanceNeverRises ==
    (Simulated /\ RLt(Zero, loan.loan_amt) /\ RLe(Zero, loan.rate)) =>
        \A pass \in SimulatedPasses :
            /\ RLe(Zero, pass.balance)
            /\ RLe(pass.balance, pass.balance0)
            /\ RLe(pass.balance0, loan.loan_amt)
            /\ IsZero(pass.balance0) => IsZero(pass.balance)

RECURSIVE PrincipalTo(_, _)
\* the Principal column summed over months 1 .. k
PrincipalTo(rows, k) ==
    IF k = 0 THEN Zero ELSE RAdd(PrincipalTo(rows, k - 1), rows[k].Principal)

\* a schedule call has returned its rows on a loan of a positive amount and
\* term
Scheduled ==
    /\ outcome.op = "amortization_schedule"
    /\ outcome.error = "none"
    /\ RLt(Zero, loan.loan_amt)
    /\ loan.term > 0

\* C4: for a loan with rate > 0 the schedule, with no extra payment or with
\* any extra >= 0 and pct_principal in [0, 1], has a Balance of 0 at month
\* term and a Principal column that sums to loan_amt.
C4_Amortizes ==
    (Scheduled /\ RLt(Zero, loan.rate)) =>
        LET rows == outcome.value[1].schedule
        IN  /\ rows[loan.term].Balance = Zero
            /\ PrincipalTo(rows, loan.term) = loan.loan_amt

\* C5: a Loan with rate = 0 (loan_amt > 0, term > 0) is constructed without
\* error, its payment is loan_amt / term, and its schedule without extra
\* payment has Balance loan_amt - m * payment after month m, which is 0 at
\* month term.
C5_ZeroRateLoan ==
    (IsZero(loan.rate) /\ RLt(Zero, loan.loan_amt) /\ loan.term > 0) =>
        /\ loan.error = "none"
        /\ loan.payment = RDiv(loan.loan_amt, Q(loan.term, 1))
        /\ (Scheduled /\ IsZero(outcome.args[1])) =>
               LET rows == outcome.value[1].schedule
               IN  /\ \A m \in 1 .. loan.term :
                        rows[m].Balance =
                            RSub(loan.loan_amt, RMul(Q(m, 1), loan.payment))
                   /\ rows[loan.term].Balance = Zero

\* an optimization has returned after the caller kept an earlier optimum for
\* the same extra (the matrix is the same: generate_returns drops what was
\* kept)
TwoOptima ==
    /\ outcome.op = "optimize"
    /\ outcome.error = "none"
    /\ seen # None
    /\ seen[1].op = "optimize"
    /\ seen[1].args[1] = outcome.args[1]

\* the minimizer of the objective for risk aversion a is unique
UniqueOptimum(extra, a) ==
    Cardinality(optimize_pct_principal(loan, monthly_returns, extra,
                                       Float(a)).xs) = 1

\* the variance of the terminal invested balance at split x
VarianceAt(x, extra) ==
    stats_invested_balance_for_pct(loan, monthly_returns, x, extra).value[2]

====
